---- MODULE Spec2Model ----
(***************************************************************************)
(* Model of radioifier.py: the Butterworth band-limiting core               *)
(* (low_pass_filter, high_pass_filter, apply_filters) and the batch script  *)
(* that decodes, filters, writes and transcodes every matched file.         *)
(*                                                                          *)
(* Arrays are numpy ndarrays: a shape (a tuple of axis lengths) and the     *)
(* elements in row-major order.  Samples are integers and the filter        *)
(* coefficients are integers with the structure of scipy's Butterworth      *)
(* design (order+1 numerator and denominator taps, a[0] = 1, numerator      *)
(* (1,3,3,1)g for low-pass and (1,-3,3,-1)g for high-pass, both depending   *)
(* on the normalised cutoff Wn), so that the recurrence is exact.           *)
(***************************************************************************)
EXTENDS Integers, Sequences, FiniteSets, TLC

VARIABLES
    pc,                   \* position of the script / of the call under test
    skip_mp3_conversion,  \* args.skip_mp3 (line 57)
    low_cutoff,           \* args.cutoff_low (line 55)
    high_cutoff,          \* args.cutoff_high (line 56)
    files,                \* glob(input_file) (line 62)
    dir_exists,           \* os.path.isdir(output_dir)
    i,                    \* index of the current file of the loop at line 73
    j,                    \* index of the current file of the loop at line 98
    audio_data,           \* the decoded buffer (line 80) / the call's argument
    sr,                   \* the decoded sample rate (line 80) / the call's rate
    audio_data_filtered,  \* line 86
    count,                \* line 58
    finished_files,       \* line 59
    fs,                   \* contents of the output directory, by path
    stdout,               \* what print() wrote, in order
    encoder,              \* the subprocess.run invocations and their outcome
    ret                   \* result of the call under test (filter specification)

vars == << pc, skip_mp3_conversion, low_cutoff, high_cutoff, files, dir_exists,
           i, j, audio_data, sr, audio_data_filtered, count, finished_files,
           fs, stdout, encoder, ret >>

(***************************************************************************)
(* Bounds of the model.                                                     *)
(***************************************************************************)
MaxSamples == 4      \* longest 1-dimensional buffer
MaxFrames == 2       \* most frames (rows) of a 2-dimensional buffer
MaxChannels == 2     \* most channels (columns) of a 2-dimensional buffer
MaxFiles == 2        \* most files the glob pattern matches

SampleValues == {0, 1}
Rates == {4, 7}
Cutoffs == {-1, 0, 1, 2, 3, 4}


(***************************************************************************)
(* numpy                                                                    *)
(***************************************************************************)
RECURSIVE Prod(_)
Prod(s) == IF s = << >> THEN 1 ELSE Head(s) * Prod(Tail(s))

RECURSIVE Flatten(_)
Flatten(ss) == IF ss = << >> THEN << >> ELSE Head(ss) \o Flatten(Tail(ss))

\* F applied to the value of v: v is evaluated once, whatever F does with it.
Let(v, F(_)) == CHOOSE out \in {F(x) : x \in {v}} : TRUE

NdArray(shape, data) == [shape |-> shape, data |-> data]

\* Python's None where an array or a rate is expected: no ndarray has this
\* shape and data (a 0-dimensional array has one element), no file this rate.
None == NdArray(<< >>, << >>)
NoRate == 0
NoCall == [fn |-> "", err |-> "", val |-> None, calls |-> << >>]

ndim(x) == Len(x.shape)

\* ndarray.T: the axes reversed.  The elements of a 2-dimensional array are
\* reordered; an array of at most one element per row-major position (0 or 1
\* dimensions, or a single element) keeps its element order.
T(x) ==
    IF ndim(x) = 2
    THEN LET r == x.shape[1]
             c == x.shape[2]
         IN  NdArray(<< c, r >>,
                     [k \in 1..(r * c) |->
                        x.data[((k - 1) % r) * c + ((k - 1) \div r) + 1]])
    ELSE NdArray([k \in 1..ndim(x) |-> x.shape[ndim(x) + 1 - k]], x.data)

\* "for channel in x": the sub-arrays along the first axis, in order.
Iter(x) ==
    LET rest == Tail(x.shape)
        w    == Prod(rest)
    IN  [k \in 1..x.shape[1] |->
            NdArray(rest, SubSeq(x.data, (k - 1) * w + 1, k * w))]

\* np.array(list of equally shaped arrays): the list index is the new first
\* axis; the empty list gives the 1-dimensional array of shape (0,).
NpArray(list) ==
    IF list = << >>
    THEN NdArray(<< 0 >>, << >>)
    ELSE NdArray(<< Len(list) >> \o list[1].shape,
                 Flatten([k \in 1..Len(list) |-> list[k].data]))

(***************************************************************************)
(* scipy.signal                                                             *)
(***************************************************************************)
Ok(val, calls) == [err |-> "", val |-> val, calls |-> calls]
Raise(msg, calls) == [err |-> msg, val |-> None, calls |-> calls]

InvalidCutoff == "ValueError: Digital filter critical frequencies must be 0 < Wn < 1"
UnsupportedShape == "ValueError: Unsupported audio format."

Order == 3

\* Wn = cutoff_frequency / (sample_rate / 2), kept as the fraction num/den.
Wn(cutoff_frequency, sample_rate) ==
    [num |-> 2 * cutoff_frequency, den |-> sample_rate]

RECURSIVE Binom(_, _)
Binom(n, k) == IF k = 0 \/ k = n THEN 1 ELSE Binom(n - 1, k - 1) + Binom(n - 1, k)

\* The design for a critical frequency inside (0, 1): order+1 taps each.
Coefficients(order, wn, btype) ==
    LET g == IF btype = "low" THEN wn.num ELSE wn.den - wn.num
        s == IF btype = "low" THEN 1 ELSE -1
    IN  [err |-> "",
         b |-> [k \in 1..(order + 1) |->
                  (IF (k - 1) % 2 = 0 THEN 1 ELSE s) * g * Binom(order, k - 1)]
               \o << >>,
         a |-> [k \in 1..(order + 1) |->
                  IF k = 1 THEN 1
                  ELSE IF k % 2 = 0 THEN -(wn.den - wn.num) ELSE wn.num]
               \o << >>]

DesignError == [err |-> InvalidCutoff, b |-> << >>, a |-> << >>]

butter_accepts_nyquist(order, wn, btype) ==
    IF ~(0 < wn.num /\ wn.num <= wn.den)
    THEN DesignError
    ELSE Coefficients(order, wn, btype)

\* butter(order, Wn, btype): raises unless 0 < Wn < 1.
butter(order, wn, btype) ==
    IF ~(0 < wn.num /\ wn.num < wn.den)
    THEN DesignError
    ELSE Coefficients(order, wn, btype)

RECURSIVE Sum(_, _, _)
Sum(f, lo, hi) == IF lo > hi THEN 0 ELSE f[lo] + Sum(f, lo + 1, hi)

Min(m, n) == IF m < n THEN m ELSE n

\* The direct-form recurrence
\*   a[0] y[n] = b[0] x[n] + ... + b[M] x[n-M] - a[1] y[n-1] - ... - a[N] y[n-N]
\* from a zero initial state: y holds the outputs so far, the next one is
\* appended until there is one output per input.
RECURSIVE direct_form(_, _, _, _)
direct_form(b, a, xs, y) ==
    IF Len(y) >= Len(xs) THEN y
    ELSE LET m == Len(y) + 1
             ff == [k \in 0..Min(m - 1, Len(b) - 1) |-> b[k + 1] * xs[m - k]]
             fb == [k \in 1..Min(m - 1, Len(a) - 1) |-> a[k + 1] * y[m - k]]
         IN  Let(Append(y, (Sum(ff, 0, Min(m - 1, Len(b) - 1))
                            - Sum(fb, 1, Min(m - 1, Len(a) - 1))) \div a[1]),
                 LAMBDA y1 : direct_form(b, a, xs, y1))

\* lfilter(b, a, x) on a 1-dimensional x: one pass, left to right; the output
\* has the shape of x.
lfilter(b, a, x) ==
    Let(<< b, a, x >>,
        LAMBDA v : NdArray(v[3].shape, direct_form(v[1], v[2], v[3].data, << >>)))

(***************************************************************************)
(* radioifier.py, lines 12-43                                               *)
(***************************************************************************)
Call(fn, cutoff) == << [fn |-> fn, cutoff |-> cutoff] >>

\* Apply a low-pass filter to the audio data.
low_pass_filter(data, cutoff_frequency, sample_rate) ==
    Let(butter(Order, Wn(cutoff_frequency, sample_rate), "low"),
        LAMBDA d : IF d.err # ""
                   THEN Raise(d.err, Call("low_pass_filter", cutoff_frequency))
                   ELSE Ok(lfilter(d.b, d.a, data),
                           Call("low_pass_filter", cutoff_frequency)))

\* Apply a high-pass filter to the audio data.
high_pass_filter(data, cutoff_frequency, sample_rate) ==
    Let(butter(Order, Wn(cutoff_frequency, sample_rate), "high"),
        LAMBDA d : IF d.err # ""
                   THEN Raise(d.err, Call("high_pass_filter", cutoff_frequency))
                   ELSE Ok(lfilter(d.b, d.a, data),
                           Call("high_pass_filter", cutoff_frequency)))

Stage(btype, data, cutoff, rate) ==
    IF btype = "low" THEN low_pass_filter(data, cutoff, rate)
    ELSE high_pass_filter(data, cutoff, rate)

\* [stage(channel, cutoff, rate) for channel in rows]: the channels are
\* filtered in order and the comprehension stops at the first raise.
ListComp(btype, rows, cutoff, rate) ==
    Let([k \in 1..Len(rows) |-> Stage(btype, rows[k], cutoff, rate)] \o << >>,
        LAMBDA r :
            LET n == Len(r)
                bad == {k \in 1..n : r[k].err # ""}
                last == IF bad = {} THEN n
                        ELSE CHOOSE k \in bad : \A m \in bad : k <= m
            IN  [err |-> IF bad = {} THEN "" ELSE r[last].err,
                 list |-> [k \in 1..n |-> r[k].val] \o << >>,
                 calls |-> Flatten([k \in 1..last |-> r[k].calls])])

PerChannel_along_frames(btype, x, cutoff, rate) ==
    Let(ListComp(btype, Iter(x), cutoff, rate),
        LAMBDA lc : IF lc.err # "" THEN Raise(lc.err, lc.calls)
                    ELSE Ok(NpArray(lc.list), lc.calls))

\* np.array([stage(channel, cutoff, rate) for channel in x.T]).T
PerChannel(btype, x, cutoff, rate) ==
    Let(ListComp(btype, Iter(T(x)), cutoff, rate),
        LAMBDA lc : IF lc.err # "" THEN Raise(lc.err, lc.calls)
                    ELSE Ok(T(NpArray(lc.list)), lc.calls))

\* The outcome of the second stage, after the calls of the first.
After(lp, hp) == [hp EXCEPT !.calls = lp.calls \o hp.calls]

apply_filters_cutoffs_by_name(x, rate, low_cut, high_cut) ==
    IF ndim(x) = 1
    THEN Let(low_pass_filter(x, low_cut, rate),
             LAMBDA lp : IF lp.err # "" THEN lp
                         ELSE After(lp, high_pass_filter(lp.val, high_cut, rate)))
    ELSE IF ndim(x) = 2
    THEN Let(PerChannel("low", x, low_cut, rate),
             LAMBDA lp : IF lp.err # "" THEN lp
                         ELSE After(lp, PerChannel("high", lp.val, high_cut, rate)))
    ELSE Raise(UnsupportedShape, << >>)

apply_filters_no_else(x, rate, low_cut, high_cut) ==
    IF ndim(x) = 1
    THEN Let(low_pass_filter(x, high_cut, rate),
             LAMBDA lp : IF lp.err # "" THEN lp
                         ELSE After(lp, high_pass_filter(lp.val, low_cut, rate)))
    ELSE IF ndim(x) >= 2
    THEN Let(PerChannel("low", x, high_cut, rate),
             LAMBDA lp : IF lp.err # "" THEN lp
                         ELSE After(lp, PerChannel("high", lp.val, low_cut, rate)))
    ELSE Raise(UnsupportedShape, << >>)

\* Apply low-pass and high-pass filters to the audio data (mono or stereo):
\* audio_data is assigned the low-pass result (cutoff high_cut), then the
\* high-pass result (cutoff low_cut) of that.
apply_filters(x, rate, low_cut, high_cut) ==
    IF ndim(x) = 1
    THEN Let(low_pass_filter(x, high_cut, rate),
             LAMBDA lp : IF lp.err # "" THEN lp
                         ELSE After(lp, high_pass_filter(lp.val, low_cut, rate)))
    ELSE IF ndim(x) = 2
    THEN Let(PerChannel("low", x, high_cut, rate),
             LAMBDA lp : IF lp.err # "" THEN lp
                         ELSE After(lp, PerChannel("high", lp.val, low_cut, rate)))
    ELSE Raise(UnsupportedShape, << >>)

(***************************************************************************)
(* The filter core on its own: a call of one of its three functions on      *)
(* drawn arguments.                                                         *)
(***************************************************************************)
Shapes ==
    {<< >>, << 1, 1, 1 >>}
    \cup {<< n >> : n \in 0..MaxSamples}
    \cup {<< n, c >> : n \in 0..MaxFrames, c \in 0..MaxChannels}

Buffers ==
    UNION {{NdArray(sh, d) : d \in [1..Prod(sh) -> SampleValues]} : sh \in Shapes}

BatchIdle ==
    /\ skip_mp3_conversion = 0
    /\ files = << >>
    /\ dir_exists = TRUE
    /\ i = 0
    /\ j = 0
    /\ audio_data_filtered = None
    /\ count = 0
    /\ finished_files = << >>
    /\ fs = << >>
    /\ stdout = << >>
    /\ encoder = << >>

InitFilter ==
    /\ pc = "call"
    /\ audio_data \in Buffers
    /\ sr \in Rates
    /\ low_cutoff \in Cutoffs
    /\ high_cutoff \in Cutoffs
    /\ ret = NoCall
    /\ BatchIdle

Return(fn, r) ==
    /\ pc' = "returned"
    /\ ret' = [fn |-> fn, err |-> r.err, val |-> r.val, calls |-> r.calls]
    /\ UNCHANGED << skip_mp3_conversion, low_cutoff, high_cutoff, files,
                    dir_exists, i, j, audio_data, sr, audio_data_filtered,
                    count, finished_files, fs, stdout, encoder >>

CallApplyFilters ==
    /\ pc = "call"
    /\ Return("apply_filters",
              apply_filters(audio_data, sr, low_cutoff, high_cutoff))

CallLowPassFilter ==
    /\ pc = "call"
    /\ ndim(audio_data) = 1
    /\ Return("low_pass_filter", low_pass_filter(audio_data, high_cutoff, sr))

CallHighPassFilter ==
    /\ pc = "call"
    /\ ndim(audio_data) = 1
    /\ Return("high_pass_filter", high_pass_filter(audio_data, low_cutoff, sr))

NextFilter == CallApplyFilters \/ CallLowPassFilter \/ CallHighPassFilter

SpecFilter == InitFilter /\ [][NextFilter]_vars

(***************************************************************************)
(* Properties of the filter core (checked under SpecFilter).                *)
(***************************************************************************)
Returned(fn) == pc = "returned" /\ ret.fn = fn

\* 0 < lowCutoffHz < highCutoffHz < sampleRate / 2
ValidCutoffs ==
    /\ 0 < low_cutoff
    /\ low_cutoff < high_cutoff
    /\ 2 * high_cutoff < sr

\* Column c of a 2-dimensional buffer, as a single-channel buffer.
Column(x, c) ==
    NdArray(<< x.shape[1] >>,
            [n \in 1..x.shape[1] |-> x.data[(n - 1) * x.shape[2] + c]])

\* C1: for a buffer of 1 or 2 dimensions and valid cutoffs, apply_filters
\* returns a buffer of exactly the shape of its input (same number of
\* dimensions, channel count and per-channel sample count), zero samples and
\* zero channels included.
C1_ShapePreserved ==
    (Returned("apply_filters") /\ ndim(audio_data) \in {1, 2} /\ ValidCutoffs)
        => (ret.err = "" /\ ret.val.shape = audio_data.shape)

\* C2: for a 2-dimensional buffer and every channel c, channel c of
\* apply_filters(buffer) is what apply_filters returns for channel c alone as
\* a single-channel buffer with the same rate and cutoffs (and the one call
\* raises exactly when the other does, with the same error).
C2_ChannelIndependence ==
    (Returned("apply_filters") /\ ndim(audio_data) = 2)
        => \A c \in 1..audio_data.shape[2] :
              LET alone == apply_filters(Column(audio_data, c), sr,
                                         low_cutoff, high_cutoff)
              IN  /\ ret.err = alone.err
                  /\ ret.err = "" =>
                        /\ ndim(ret.val) = 2
                        /\ ret.val.shape[2] = audio_data.shape[2]
                        /\ Column(ret.val, c) = alone.val

C2_Witness ==
    /\ Returned("apply_filters")
    /\ audio_data.shape = << 2, 2 >>
    /\ ValidCutoffs
    /\ ret.err = ""
    /\ Column(audio_data, 1) # Column(audio_data, 2)
    /\ Column(ret.val, 1) # Column(ret.val, 2)
    /\ Column(ret.val, 1).data[2] # 0

\* C3: on a single-channel buffer apply_filters runs low_pass_filter with
\* cutoff high_cut and then high_pass_filter with cutoff low_cut on the
\* low-pass result, in that order and each exactly once.
C3_MonoStageOrder ==
    (Returned("apply_filters") /\ ndim(audio_data) = 1 /\ ret.err = "")
        => /\ ret.calls = << [fn |-> "low_pass_filter", cutoff |-> high_cutoff],
                             [fn |-> "high_pass_filter", cutoff |-> low_cutoff] >>
           /\ ret.val =
                 high_pass_filter(
                     low_pass_filter(audio_data, high_cutoff, sr).val,
                     low_cutoff, sr).val

C3_Witness ==
    /\ Returned("apply_filters")
    /\ audio_data.shape = << 3 >>
    /\ audio_data.data[1] = 1
    /\ ValidCutoffs
    /\ ret.err = ""
    /\ Len(ret.calls) = 2
    /\ ret.val.data[1] # 0

\* C4: low_pass_filter and high_pass_filter raise the cutoff error exactly
\* when cutoff <= 0 or cutoff >= sample_rate / 2 (the boundary
\* cutoff = sample_rate / 2 raises); for a cutoff strictly inside
\* (0, sample_rate / 2) they do not raise.
C4_InvalidCutoff ==
    /\ Returned("low_pass_filter") =>
          (ret.err = InvalidCutoff <=> (high_cutoff <= 0 \/ 2 * high_cutoff >= sr))
          /\ (ret.err # InvalidCutoff => ret.err = "")
    /\ Returned("high_pass_filter") =>
          (ret.err = InvalidCutoff <=> (low_cutoff <= 0 \/ 2 * low_cutoff >= sr))
          /\ (ret.err # InvalidCutoff => ret.err = "")

C4_Witness ==
    /\ Returned("low_pass_filter")
    /\ 2 * high_cutoff = sr
    /\ ret.err = InvalidCutoff

\* C5: apply_filters raises the unsupported-shape error for every buffer
\* whose number of dimensions is neither 1 nor 2, before any filter stage
\* has been run on it.
C5_UnsupportedShape ==
    (Returned("apply_filters") /\ ndim(audio_data) \notin {1, 2})
        => (ret.err = UnsupportedShape /\ ret.calls = << >>)

C5_Witness ==
    /\ Returned("apply_filters")
    /\ ndim(audio_data) = 3
    /\ ValidCutoffs
    /\ ret.err = UnsupportedShape

(***************************************************************************)
(* radioifier.py, lines 46-108: the batch script.                           *)
(***************************************************************************)
Stems == {"a", "b"}

\* What a2n.open_audio does with a matched file.
Kinds == {"corrupt", "unreadable", "mono", "stereo", "cube"}

InputFiles == [stem : Stems, kind : Kinds]

RECURSIVE SeqsUpTo(_, _)
SeqsUpTo(S, n) ==
    IF n = 0 THEN {<< >>}
    ELSE LET shorter == SeqsUpTo(S, n - 1)
         IN  shorter \cup {Append(q, e) : q \in {t \in shorter : Len(t) = n - 1}, e \in S}

\* a2n.open_audio(file): the decoded buffer and its rate, or an exception.
open_audio(file) ==
    IF file.kind = "corrupt"
    THEN [err |-> "DecodeError", none |-> TRUE, audio |-> None, sr |-> NoRate]
    ELSE IF file.kind = "unreadable"
    THEN [err |-> "", none |-> TRUE, audio |-> None, sr |-> NoRate]
    ELSE IF file.kind = "mono"
    THEN [err |-> "", none |-> FALSE, audio |-> NdArray(<< 2 >>, << 1, 0 >>), sr |-> 7]
    ELSE IF file.kind = "stereo"
    THEN [err |-> "", none |-> FALSE,
          audio |-> NdArray(<< 2, 2 >>, << 1, 0, 1, 1 >>), sr |-> 7]
    ELSE [err |-> "", none |-> FALSE, audio |-> NdArray(<< 1, 1, 1 >>, << 1 >>), sr |-> 7]

\* os.path.join(output_dir, f"{Path(file).stem}_filtered.wav")
output_path(file) == file.stem

print_line(line, arg) == stdout' = Append(stdout, [line |-> line, arg |-> arg])

\* The state at line 61: the command line is parsed (--skip_mp3 is an int,
\* False by default), nothing is decoded yet.
Init ==
    /\ pc = "glob"
    /\ skip_mp3_conversion \in {0, 1}
    /\ low_cutoff \in {0, 1}
    /\ high_cutoff \in {3, 4}
    /\ files = << >>
    /\ dir_exists \in BOOLEAN
    /\ i = 0
    /\ j = 0
    /\ audio_data = None
    /\ sr = NoRate
    /\ audio_data_filtered = None
    /\ count = 0
    /\ finished_files = << >>
    /\ fs = [p \in Stems |-> "absent"]
    /\ stdout = << >>
    /\ encoder = << >>
    /\ ret = NoCall

\* lines 62-65
Glob ==
    /\ pc = "glob"
    /\ files' \in SeqsUpTo(InputFiles, MaxFiles)
    /\ IF files' = << >>
       THEN print_line(64, "No files found") /\ pc' = "exit1"
       ELSE pc' = "mkdir" /\ UNCHANGED stdout
    /\ UNCHANGED << skip_mp3_conversion, low_cutoff, high_cutoff,
                    dir_exists, i, j, audio_data, sr, audio_data_filtered,
                    count, finished_files, fs, encoder, ret >>

\* lines 68-71; os.makedirs either creates the directory or raises.
MakeOutputDir ==
    /\ pc = "mkdir"
    /\ \/ dir_exists /\ pc' = "loop" /\ UNCHANGED << dir_exists, stdout >>
       \/ ~dir_exists /\ dir_exists' = TRUE /\ print_line(71, "Created output directory")
          /\ pc' = "loop"
       \/ ~dir_exists /\ pc' = "uncaught_makedirs" /\ UNCHANGED << dir_exists, stdout >>
    /\ i' = 1
    /\ UNCHANGED << skip_mp3_conversion, low_cutoff, high_cutoff, files, j,
                    audio_data, sr, audio_data_filtered, count, finished_files,
                    fs, encoder, ret >>

\* line 73, and lines 75-77 of the next file
NextFile ==
    /\ pc = "loop"
    /\ i <= Len(files)
    /\ print_line(75, files[i])
    /\ pc' = "open"
    /\ UNCHANGED << skip_mp3_conversion, low_cutoff, high_cutoff, files,
                    dir_exists, i, j, audio_data, sr, audio_data_filtered,
                    count, finished_files, fs, encoder, ret >>

ExceptUncaught(e) ==
    /\ pc' = "uncaught_loop"
    /\ UNCHANGED << i, stdout >>

\* lines 93-94: except Exception, then on to the next file
Except(e) ==
    /\ print_line(94, << files[i], e >>)
    /\ i' = i + 1
    /\ pc' = "loop"

\* lines 80-83
OpenAudio ==
    /\ pc = "open"
    /\ LET r == open_audio(files[i])
       IN  IF r.err # ""
           THEN Except(r.err) /\ UNCHANGED << audio_data, sr >>
           ELSE /\ audio_data' = r.audio
                /\ sr' = r.sr
                /\ IF r.none
                   THEN print_line(82, files[i]) /\ i' = i + 1 /\ pc' = "loop"
                   ELSE pc' = "filter" /\ UNCHANGED << i, stdout >>
    /\ UNCHANGED << skip_mp3_conversion, low_cutoff, high_cutoff, files,
                    dir_exists, j, audio_data_filtered, count, finished_files,
                    fs, encoder, ret >>

\* line 86
ApplyFilters ==
    /\ pc = "filter"
    /\ LET r == apply_filters(audio_data, sr, low_cutoff, high_cutoff)
       IN  IF r.err # ""
           THEN Except(r.err) /\ UNCHANGED audio_data_filtered
           ELSE /\ audio_data_filtered' = r.val
                /\ pc' = "write"
                /\ UNCHANGED << i, stdout >>
    /\ UNCHANGED << skip_mp3_conversion, low_cutoff, high_cutoff, files,
                    dir_exists, j, audio_data, sr, count, finished_files, fs,
                    encoder, ret >>

\* lines 89-92, wavfile.write succeeding
WriteWav ==
    /\ pc = "write"
    /\ fs' = [fs EXCEPT ![output_path(files[i])] = "complete"]
    /\ print_line(90, output_path(files[i]))
    /\ finished_files' = Append(finished_files, output_path(files[i]))
    /\ count' = count + 1
    /\ i' = i + 1
    /\ pc' = "loop"
    /\ UNCHANGED << skip_mp3_conversion, low_cutoff, high_cutoff, files,
                    dir_exists, j, audio_data, sr, audio_data_filtered, encoder,
                    ret >>

\* line 89, wavfile.write raising: before it opened the output path (the
\* path is as it was) or after (the path holds a truncated file).
WriteWavFails ==
    /\ pc = "write"
    /\ \E left \in {fs[output_path(files[i])], "partial"} :
          fs' = [fs EXCEPT ![output_path(files[i])] = left]
    /\ Except("OSError")
    /\ UNCHANGED << skip_mp3_conversion, low_cutoff, high_cutoff, files,
                    dir_exists, j, audio_data, sr, audio_data_filtered, count,
                    finished_files, encoder, ret >>

\* lines 95-97: the loop at line 73 is exhausted
FinishProcessing ==
    /\ pc = "loop"
    /\ i > Len(files)
    /\ stdout' = stdout \o << [line |-> 95, arg |-> count],
                               [line |-> 97, arg |-> count] >>
    /\ j' = 1
    /\ pc' = "convert"
    /\ UNCHANGED << skip_mp3_conversion, low_cutoff, high_cutoff, files,
                    dir_exists, i, audio_data, sr, audio_data_filtered, count,
                    finished_files, fs, encoder, ret >>

\* subprocess.run(...): ffmpeg exits 0, exits non-zero, or cannot be started
\* (subprocess.run raises).
RunOutcomes == {"zero", "nonzero", "raise"}

\* lines 98-106, one file of finished_files
Convert ==
    /\ pc = "convert"
    /\ j <= Len(finished_files)
    /\ \E outcome \in RunOutcomes :
          /\ encoder' = Append(encoder, [file |-> finished_files[j],
                                          outcome |-> outcome])
          /\ IF outcome = "raise"
             THEN /\ print_line(102, finished_files[j])
                  /\ pc' = "uncaught_run"
                  /\ UNCHANGED j
             ELSE /\ stdout' = stdout \o << [line |-> 102, arg |-> finished_files[j]] >>
                                \o (IF outcome = "nonzero"
                                    THEN << [line |-> 105, arg |-> "Error converting"],
                                            [line |-> 106, arg |-> "result.stderr"] >>
                                    ELSE << >>)
                  /\ j' = j + 1
                  /\ pc' = "convert"
    /\ UNCHANGED << skip_mp3_conversion, low_cutoff, high_cutoff, files,
                    dir_exists, i, audio_data, sr, audio_data_filtered, count,
                    finished_files, fs, ret >>

\* line 108: the loop at line 98 is exhausted
FinishConversion ==
    /\ pc = "convert"
    /\ j > Len(finished_files)
    /\ print_line(108, count)
    /\ pc' = "done"
    /\ UNCHANGED << skip_mp3_conversion, low_cutoff, high_cutoff, files,
                    dir_exists, i, j, audio_data, sr, audio_data_filtered,
                    count, finished_files, fs, encoder, ret >>

Next ==
    \/ Glob
    \/ MakeOutputDir
    \/ NextFile
    \/ OpenAudio
    \/ ApplyFilters
    \/ WriteWav
    \/ WriteWavFails
    \/ FinishProcessing
    \/ Convert
    \/ FinishConversion

Spec == Init /\ [][Next]_vars

\* The statements of the loop at line 73 (and what leads to it) always run to
\* their end: decoding, filtering and writing a file are finite computations.
LoopStep ==
    \/ Glob
    \/ MakeOutputDir
    \/ NextFile
    \/ OpenAudio
    \/ ApplyFilters
    \/ WriteWav
    \/ WriteWavFails
    \/ FinishProcessing

FairSpec == Spec /\ WF_vars(LoopStep)

(***************************************************************************)
(* Properties of the batch script (checked under Spec / FairSpec).          *)
(***************************************************************************)
Lines(n) == SelectSeq(stdout, LAMBDA e : e.line = n)

Args(n) == [k \in 1..Len(Lines(n)) |-> Lines(n)[k].arg]

\* The script has ended: normally, by exit(1), or by an uncaught exception.
Ended == pc \in {"done", "exit1", "uncaught_makedirs", "uncaught_loop", "uncaught_run"}

\* The loop at line 73 has been left at its end.
LoopDone == pc \in {"convert", "done", "uncaught_run"}

AtFile == pc \in {"open", "filter", "write"}

C7_NoPartialOutput ==
    Ended =>
        /\ \A p \in Stems : fs[p] # "partial"
        /\ finished_files = Args(90)
        /\ count = Len(finished_files)

\* C8: with the skip flag set the encoder is never invoked.
C8_SkipFlagHonoured ==
    skip_mp3_conversion # 0 => encoder = << >>

\* C9: a failure of the encoder on one file (a non-zero exit code or a
\* failure to run it at all) does not end the transcoding loop: once the loop
\* at line 98 is over, every file of finished_files has been handed to the
\* encoder and the final summary line has been printed.
C9_TranscodeFailureContinues ==
    (Ended /\ LoopDone) =>
        /\ [k \in 1..Len(encoder) |-> encoder[k].file] = finished_files
        /\ Len(Lines(108)) = 1

\* C10: the run reports the number of files filtered (the length of
\* finished_files) and, separately, the number of files transcoded (the
\* number of encoder invocations that succeeded).
C10_SeparateCounts ==
    pc = "done" =>
        /\ Args(95) = << Len(finished_files) >>
        /\ Args(108) = << Cardinality({k \in 1..Len(encoder) :
                                         encoder[k].outcome = "zero"}) >>

====
